---- MODULE Spec2Model ----
(***************************************************************************)
(* gnames/gnstats, package ent/stats: the statistics New computes for a    *)
(* collection of classification hierarchies.                               *)
(*                                                                         *)
(* A behaviour builds an input collection hs (a caller's []Hierarchy),     *)
(* calls New on it with some threshold, and may call New again on the same *)
(* collection with the same threshold.  One action is one whole call.      *)
(*                                                                         *)
(* Percentages are float32 quotients float32(v)/float32(namesNum) of small *)
(* non-negative integers.  They are modelled as reduced fractions: for the *)
(* integers of this model two such quotients are equal, or ordered, as     *)
(* floats exactly when the fractions are.                                  *)
(*                                                                         *)
(* Go ranges over a map in an unspecified order.  Every range over a       *)
(* bucket's map (one in maxTaxon, one in getTaxDist, per bucket and per    *)
(* call) visits the keys in an order chosen nondeterministically.          *)
(***************************************************************************)
EXTENDS Integers, Sequences, FiniteSets

VARIABLES
  hs,         \* the caller's collection: a sequence of hierarchies (sequences of Taxon)
  pc,         \* "input" while the collection is built, "called" once New has returned
  threshold,  \* the threshold New was called with
  taxons,     \* New's local taxons: the retained hierarchies
  ranks,      \* New's local ranks after removeEmptyRanks
  stats,      \* the Stats the latest call returned
  first       \* the Stats the first call returned

vars == <<hs, pc, threshold, taxons, ranks, stats, first>>

(***************************************************************************)
(* Bounds of the model.                                                    *)
(***************************************************************************)
\* the size of the collection: its hierarchies plus their taxon entries
MaxSize == 6

(***************************************************************************)
(* Rank: an ordered enumeration, more general ranks are greater.  Empty is *)
(* the zero value, Unknown the rank of an unrecognised label.              *)
(***************************************************************************)
Empty == 0
Unknown == 1
Species == 2
Genus == 3
SubFamily == 4
Family == 5
Order == 6
SubClass == 7
Class == 8
Phylum == 9
Kingdom == 10
Empire == 11

Ranks == Empty..Empire

\* NewRank: the rank of a rank label; a label that is not in the table is Unknown.
NewRank(s) ==
  CASE s = "empire" -> Empire
    [] s = "kingdom" -> Kingdom
    [] s = "phylum" -> Phylum
    [] s = "class" -> Class
    [] s = "subclass" -> SubClass
    [] s = "order" -> Order
    [] s = "family" -> Family
    [] s = "subfamily" -> SubFamily
    [] s = "genus" -> Genus
    [] s = "species" -> Species
    [] s = "unranked" -> Unknown
    [] OTHER -> Unknown

\* Rank.Index: the position of a rank's bucket in ranksData(), which lists the
\* ranks from the most general to the most specific.
Index(r) == Empire - r + 1

rankDataOf(r) == [rank |-> r, data |-> <<>>, total |-> 0]

\* ranksData: one empty bucket per rank.
ranksData == [i \in 1..(Empire + 1) |-> rankDataOf(Empire + 1 - i)]

(***************************************************************************)
(* Taxon, TaxonDist, Stats and their zero values.                          *)
(***************************************************************************)
MkTaxon(id, name, rankStr) ==
  [ID |-> id, Name |-> name, RankStr |-> rankStr, Rank |-> Empty]

ZeroTaxon == MkTaxon("", "", "")

\* The taxa the hierarchies are drawn from, from the most general to the most
\* specific: the fixture's Biota, two kingdoms, a genus under two IDs, a genus
\* without a name and a species.
TaxonPool ==
  << MkTaxon("5T6MX", "Biota", "unranked"),
     MkTaxon("N", "Animalia", "kingdom"),
     MkTaxon("P", "Plantae", "kingdom"),
     MkTaxon("75F9", "Puma", "genus"),
     MkTaxon("6V7H", "Puma", "genus"),
     MkTaxon("3DQQ", "", "genus"),
     MkTaxon("4QHKG", "Puma concolor", "species") >>

RECURSIVE GCD(_, _)
GCD(a, b) == IF b = 0 THEN a ELSE GCD(b, a % b)

\* float32(v) / float32(n), n > 0, as a reduced fraction
Pct(v, n) == LET g == GCD(v, n) IN [num |-> v \div g, den |-> n \div g]

ZeroPct == [num |-> 0, den |-> 1]

\* p > q on fractions with positive denominators
Greater(p, q) == p.num * q.den > q.num * p.den

\* the constant 0.5 of New
Half == [num |-> 1, den |-> 2]

\* The thresholds a call is made with: negative, zero, one half, one.
Thresholds ==
  { [num |-> -1, den |-> 2], ZeroPct, Half, [num |-> 1, den |-> 1] }

ZeroStats ==
  [ NamesNum |-> 0, Kingdoms |-> <<>>,
    Kingdom |-> ZeroTaxon, KingdomPercentage |-> ZeroPct,
    Phylum |-> ZeroTaxon, PhylumPercentage |-> ZeroPct,
    Class |-> ZeroTaxon, ClassPercentage |-> ZeroPct,
    Order |-> ZeroTaxon, OrderPercentage |-> ZeroPct,
    Family |-> ZeroTaxon, FamilyPercentage |-> ZeroPct,
    Genus |-> ZeroTaxon, GenusPercentage |-> ZeroPct,
    MainTaxon |-> ZeroTaxon, MainTaxonPercentage |-> ZeroPct ]

(***************************************************************************)
(* extractTaxons                                                           *)
(***************************************************************************)
\* lines 261-263: a taxon without a rank gets the rank of its label
classify(t) ==
  IF t.Rank = Empty THEN [t EXCEPT !.Rank = NewRank(t.RankStr)] ELSE t

\* the caller's hierarchies after extractTaxons has classified them in place
classified(h) ==
  [i \in 1..Len(h) |-> [j \in 1..Len(h[i]) |-> classify(h[i][j])]]

isGenusOrLessAnyKnownOrNot(t) == t.Rank <= Genus

\* lines 264-266: the test that sets genusOrLess
isGenusOrLess(t) == t.Rank # Unknown /\ t.Rank <= Genus

genusOrLess(txs) == \E i \in 1..Len(txs) : isGenusOrLess(txs[i])

extractTaxons(h) == SelectSeq(classified(h), genusOrLess)

(***************************************************************************)
(* New: the population of the rank buckets                                 *)
(***************************************************************************)
KeyNameRank(t) == [t EXCEPT !.ID = "", !.RankStr = ""]

\* line 136: the map's key is the Taxon value itself
Key(t) == t

\* lines 135-137: one taxon entry counted
count(rs, t) ==
  LET rankIdx == Index(t.Rank)
      k == Key(t)
      d == rs[rankIdx].data
      d1 == [x \in DOMAIN d \cup {k} |->
               IF x = k THEN (IF k \in DOMAIN d THEN d[k] + 1 ELSE 1) ELSE d[x]]
  IN [rs EXCEPT ![rankIdx] = [@ EXCEPT !.data = d1, !.total = @ + 1]]

RECURSIVE countAll(_, _)
countAll(rs, cs) ==
  IF cs = <<>> THEN rs ELSE countAll(count(rs, Head(cs)), Tail(cs))

\* lines 133-139
RECURSIVE populate(_, _)
populate(rs, txs) ==
  IF txs = <<>> THEN rs ELSE populate(countAll(rs, Head(txs)), Tail(txs))

nonEmptyRank(rd) == rd.total # 0

removeEmptyRanks(rs) == SelectSeq(rs, nonEmptyRank)

(***************************************************************************)
(* maxTaxon, getTaxDist, isMaxTaxon                                        *)
(***************************************************************************)
\* the loop of maxTaxon over the keys in the order it, from [max, cld]
RECURSIVE maxScan(_, _, _)
maxScan(rd, it, acc) ==
  IF it = <<>> THEN acc
  ELSE LET k == Head(it)
           v == rd.data[k]
       IN maxScan(rd, Tail(it),
                  IF v > acc.max THEN [max |-> v, cld |-> k] ELSE acc)

maxTaxon(namesNum, rd, it) ==
  LET acc == maxScan(rd, it, [max |-> 0, cld |-> ZeroTaxon])
  IN [ txn |-> IF acc.cld.Name # "" THEN acc.cld ELSE ZeroTaxon,
       pcent |-> Pct(acc.max, namesNum) ]

getTaxDist(namesNum, rd, it) ==
  [i \in 1..Len(it) |->
     [ NamesNum |-> rd.data[it[i]],
       Name |-> it[i].Name,
       Percentage |-> Pct(rd.data[it[i]], namesNum) ]]

isMaxTaxonAtLeastOne(cd, percentage) ==
  Cardinality({i \in 1..Len(cd) : cd[i].Percentage = percentage}) >= 1

isMaxTaxon(cd, percentage) ==
  Cardinality({i \in 1..Len(cd) : cd[i].Percentage = percentage}) = 1

(***************************************************************************)
(* calcStats                                                               *)
(***************************************************************************)
StandardRanks == {Kingdom, Phylum, Class, Order, Family, Genus}

clampNone(t) == t

\* lines 118-120
clamp(t) == IF Greater(Half, t) THEN Half ELSE t

selectsMainLast(pcent, t, foundMainTaxon) == Greater(pcent, t)

selectsMainAtLeast(pcent, t, foundMainTaxon) ==
  ~Greater(t, pcent) /\ ~foundMainTaxon

\* line 199
selectsMain(pcent, t, foundMainTaxon) == Greater(pcent, t) /\ ~foundMainTaxon

\* lines 177-197: the switch on maxTx.Rank
setRank(res, maxTx, maxPcent, txnDistr) ==
  CASE maxTx.Rank = Kingdom ->
         [res EXCEPT !.Kingdom = maxTx, !.KingdomPercentage = maxPcent,
                     !.Kingdoms = txnDistr]
    [] maxTx.Rank = Phylum ->
         [res EXCEPT !.Phylum = maxTx, !.PhylumPercentage = maxPcent]
    [] maxTx.Rank = Class ->
         [res EXCEPT !.Class = maxTx, !.ClassPercentage = maxPcent]
    [] maxTx.Rank = Order ->
         [res EXCEPT !.Order = maxTx, !.OrderPercentage = maxPcent]
    [] maxTx.Rank = Family ->
         [res EXCEPT !.Family = maxTx, !.FamilyPercentage = maxPcent]
    [] maxTx.Rank = Genus ->
         [res EXCEPT !.Genus = maxTx, !.GenusPercentage = maxPcent]
    [] OTHER -> res

\* lines 160-204: one iteration of the loop, on the bucket rd, ranged in the
\* orders it.mx (maxTaxon) and it.ds (getTaxDist)
calcStep(st, namesNum, rd, it, t) ==
  IF rd.rank <= Unknown THEN st
  ELSE
    LET m == maxTaxon(namesNum, rd, it.mx)
        std == rd.rank \in StandardRanks
        txnDistr == IF std THEN getTaxDist(namesNum, rd, it.ds) ELSE st.txnDistr
        isMax == std /\ isMaxTaxon(txnDistr, m.pcent)
        maxTx == IF isMax THEN m.txn ELSE ZeroTaxon
        maxPcent == IF isMax THEN m.pcent ELSE ZeroPct
        take == selectsMain(m.pcent, t, st.foundMainTaxon)
    IN [ res |-> setRank(st.res, maxTx, maxPcent, txnDistr),
         txnDistr |-> txnDistr,
         mainTaxon |-> IF take THEN m.txn ELSE st.mainTaxon,
         txnPCent |-> IF take THEN m.pcent ELSE st.txnPCent,
         foundMainTaxon |-> st.foundMainTaxon \/ take ]

\* the loop from the last bucket (idx = 0, reverseIdx = l - 1) to the first
RECURSIVE calcLoop(_, _, _, _, _, _)
calcLoop(st, namesNum, rs, its, t, reverseIdx) ==
  IF reverseIdx = 0 THEN st
  ELSE calcLoop(calcStep(st, namesNum, rs[reverseIdx], its[reverseIdx], t),
                namesNum, rs, its, t, reverseIdx - 1)

calcStats(namesNum, rs, its, t) ==
  LET st0 == [ res |-> [ZeroStats EXCEPT !.NamesNum = namesNum],
               txnDistr |-> <<>>, mainTaxon |-> ZeroTaxon,
               txnPCent |-> ZeroPct, foundMainTaxon |-> FALSE ]
      st == calcLoop(st0, namesNum, rs, its, t, Len(rs))
  IN [st.res EXCEPT !.MainTaxon = st.mainTaxon,
                    !.MainTaxonPercentage = st.txnPCent]

(***************************************************************************)
(* New                                                                     *)
(***************************************************************************)
shortCircuitNever(txs) == FALSE

\* line 125
shortCircuit(txs) == Len(txs) = 1

\* the buckets New hands to calcStats (none when it returns early)
rankBuckets(h) ==
  LET txs == extractTaxons(h)
  IN IF shortCircuit(txs) THEN <<>>
     ELSE removeEmptyRanks(populate(ranksData, txs))

\* lines 118-143 from the retained hierarchies txs and their buckets rs
newStats(txs, rs, t, its) ==
  IF shortCircuit(txs) THEN ZeroStats
  ELSE calcStats(Len(txs), rs, its, clamp(t))

\* New(h, t) when the maps of the buckets are ranged in the orders its
New(h, t, its) == newStats(extractTaxons(h), rankBuckets(h), t, its)

(***************************************************************************)
(* The orders in which a call may range over the buckets' maps.            *)
(***************************************************************************)
RECURSIVE Perms(_)
Perms(S) ==
  IF S = {} THEN {<<>>}
  ELSE UNION {{<<x>> \o p : p \in Perms(S \ {x})} : x \in S}

\* the orders of the ranges of one loop iteration: none for a bucket the loop
\* skips, one in maxTaxon, and one in getTaxDist for a standard rank
BucketOrders(rd) ==
  LET P == Perms(DOMAIN rd.data)
  IN IF rd.rank <= Unknown THEN {[mx |-> <<>>, ds |-> <<>>]}
     ELSE IF rd.rank \in StandardRanks THEN {[mx |-> a, ds |-> b] : a \in P, b \in P}
     ELSE {[mx |-> a, ds |-> <<>>] : a \in P}

RECURSIVE IterOrders(_, _)
IterOrders(rs, n) ==
  IF n = 0 THEN {<<>>}
  ELSE {Append(s, o) : s \in IterOrders(rs, n - 1), o \in BucketOrders(rs[n])}

(***************************************************************************)
(* The state machine.                                                      *)
(***************************************************************************)
RECURSIVE TotalLen(_)
TotalLen(h) == IF h = <<>> THEN 0 ELSE Len(Head(h)) + TotalLen(Tail(h))

Init ==
  /\ hs = <<>>
  /\ pc = "input"
  /\ threshold = ZeroPct
  /\ taxons = <<>>
  /\ ranks = <<>>
  /\ stats = ZeroStats
  /\ first = ZeroStats

\* the caller adds an empty hierarchy to the collection
AddHierarchy ==
  /\ pc = "input"
  /\ Len(hs) + TotalLen(hs) < MaxSize
  /\ hs' = Append(hs, <<>>)
  /\ UNCHANGED <<pc, threshold, taxons, ranks, stats, first>>

\* the caller adds a taxon to the last hierarchy, which lists its taxa from
\* the most general to the most specific and may repeat one
AddTaxon ==
  /\ pc = "input"
  /\ hs # <<>>
  /\ Len(hs) + TotalLen(hs) < MaxSize
  /\ \E i \in 1..Len(TaxonPool) :
       LET last == hs[Len(hs)]
       IN /\ IF last = <<>> THEN TRUE
             ELSE \E j \in 1..i : TaxonPool[j] = last[Len(last)]
          /\ hs' = [hs EXCEPT ![Len(hs)] = Append(last, TaxonPool[i])]
  /\ UNCHANGED <<pc, threshold, taxons, ranks, stats, first>>

\* stats := New(hs, t), the first call
CallNew ==
  /\ pc = "input"
  /\ LET txs == extractTaxons(hs)
         rs == rankBuckets(hs)
     IN /\ \E t \in Thresholds :
             \E its \in IterOrders(rs, Len(rs)) :
               /\ threshold' = t
               /\ stats' = newStats(txs, rs, t, its)
               /\ first' = stats'
        /\ taxons' = txs
        /\ ranks' = rs
  /\ hs' = classified(hs)
  /\ pc' = "called"

\* stats := New(hs, threshold) again, on the collection the first call classified
CallAgain ==
  /\ pc = "called"
  /\ LET txs == extractTaxons(hs)
         rs == rankBuckets(hs)
     IN /\ \E its \in IterOrders(rs, Len(rs)) :
             stats' = newStats(txs, rs, threshold, its)
        /\ taxons' = txs
        /\ ranks' = rs
  /\ hs' = classified(hs)
  /\ UNCHANGED <<pc, threshold, first>>

Next == AddHierarchy \/ AddTaxon \/ CallNew \/ CallAgain

Spec == Init /\ [][Next]_vars

(***************************************************************************)
(* What the claims are stated in: the collection as the call left it       *)
(* (every taxon classified), counted independently of New.                 *)
(***************************************************************************)
Called == pc = "called"

\* a hierarchy with a taxon whose rank is known and is genus or more specific
RetainedH(h) ==
  \E i \in 1..Len(h) :
    h[i].Rank # Unknown /\ h[i].Rank # Empty /\ h[i].Rank <= Genus

RetainedHs == SelectSeq(hs, RetainedH)

\* the taxon entries of a sequence of hierarchies, by position
Positions(hseq) ==
  UNION {{<<i, j>> : j \in 1..Len(hseq[i])} : i \in 1..Len(hseq)}

EntriesOfRank(hseq, r) ==
  Cardinality({p \in Positions(hseq) : hseq[p[1]][p[2]].Rank = r})

EntriesEqual(hseq, k) ==
  Cardinality({p \in Positions(hseq) : hseq[p[1]][p[2]] = k})

EntriesSameNameRank(hseq, k) ==
  Cardinality({p \in Positions(hseq) :
                 /\ hseq[p[1]][p[2]].Name = k.Name
                 /\ hseq[p[1]][p[2]].Rank = k.Rank})

\* the bucket of rank r among the buckets handed to calcStats
BucketIdx(r) == {i \in 1..Len(ranks) : ranks[i].rank = r}

DataOf(r) ==
  IF BucketIdx(r) = {} THEN <<>> ELSE ranks[CHOOSE i \in BucketIdx(r) : TRUE].data

TotalOf(r) ==
  IF BucketIdx(r) = {} THEN 0 ELSE ranks[CHOOSE i \in BucketIdx(r) : TRUE].total

\* the occurrence count under which the taxon entry k was tallied
CountOf(k) == IF k \in DOMAIN DataOf(k.Rank) THEN DataOf(k.Rank)[k] ELSE 0

RECURSIVE SumOver(_, _)
SumOver(d, S) ==
  IF S = {} THEN 0
  ELSE LET x == CHOOSE y \in S : TRUE IN d[x] + SumOver(d, S \ {x})

\* C4: a hierarchy is retained exactly when one of its taxa has a known rank
\* that is genus or more specific; unless exactly one hierarchy is retained,
\* NamesNum is the number of retained hierarchies, and the bucket of each rank
\* holds one count for every taxon entry of that rank in a retained hierarchy
\* and none for an entry of a dropped hierarchy.
C4_RetainedAndCounted ==
  Called =>
    /\ taxons = RetainedHs
    /\ Len(RetainedHs) # 1 =>
         /\ stats.NamesNum = Len(RetainedHs)
         /\ \A r \in Ranks :
              /\ Cardinality(BucketIdx(r)) <= 1
              /\ TotalOf(r) = EntriesOfRank(RetainedHs, r)
              /\ SumOver(DataOf(r), DOMAIN DataOf(r)) = EntriesOfRank(RetainedHs, r)
              /\ \A k \in DOMAIN DataOf(r) : k.Rank = r

\* C4 witness: two hierarchies retained, and one that reaches only a kingdom is dropped
C4_Witness ==
  /\ Called
  /\ Len(hs) = 3
  /\ Len(RetainedHs) = 2
  /\ \E i \in 1..Len(hs) :
       /\ ~RetainedH(hs[i])
       /\ \E j \in 1..Len(hs[i]) : hs[i][j].Rank = Kingdom
  /\ TotalOf(Kingdom) = 0
  /\ TotalOf(Genus) + TotalOf(Species) = 2

\* C5: with no or one retained hierarchy New returns the zero Stats, whatever
\* the threshold.
C5_FewNamesZeroStats ==
  (Called /\ Len(RetainedHs) <= 1) => stats = ZeroStats

\* C5 witness: one of two hierarchies is retained, and it has a kingdom and a genus
C5_Witness ==
  /\ Called
  /\ Len(hs) = 2
  /\ Len(RetainedHs) = 1
  /\ EntriesOfRank(RetainedHs, Kingdom) = 1
  /\ EntriesOfRank(RetainedHs, Genus) = 1
  /\ threshold = Half

RECURSIVE MaxOver(_, _)
MaxOver(d, S) ==
  IF S = {} THEN 0
  ELSE LET x == CHOOSE y \in S : TRUE
           m == MaxOver(d, S \ {x})
       IN IF d[x] > m THEN d[x] ELSE m

\* the maximum occurrence count of rank r and the taxa that have it
MaxCount(r) == MaxOver(DataOf(r), DOMAIN DataOf(r))

MaxSet(r) == {k \in DOMAIN DataOf(r) : DataOf(r)[k] = MaxCount(r)}

\* max(threshold, 0.5)
Limit == IF threshold.num * 2 < threshold.den THEN Half ELSE threshold

\* the ranks with a bucket, Unknown and Empty excluded
Comparable == {r \in Ranks : r # Unknown /\ r # Empty /\ BucketIdx(r) # {}}

\* the ranks whose maximum count over NamesNum is strictly greater than Limit
Qualifying ==
  {r \in Comparable : MaxCount(r) * Limit.den > Limit.num * Len(RetainedHs)}

MostSpecific == CHOOSE r \in Qualifying : \A q \in Qualifying : r <= q

\* C1 as claimed: with two or more retained hierarchies MainTaxon is a
\* maximum-count taxon of the most specific qualifying rank and
\* MainTaxonPercentage its fraction; with no qualifying rank MainTaxon is empty.
C1_MainTaxonIsMaxOfMostSpecific ==
  (Called /\ Len(RetainedHs) >= 2) =>
    IF Qualifying = {}
    THEN stats.MainTaxon = ZeroTaxon /\ stats.MainTaxonPercentage = ZeroPct
    ELSE /\ stats.MainTaxon \in MaxSet(MostSpecific)
         /\ stats.MainTaxonPercentage =
              Pct(MaxCount(MostSpecific), Len(RetainedHs))

\* C1 amended: as claimed, but when the maximum-count taxon picked in the most
\* specific qualifying rank has an empty name, MainTaxon is the empty Taxon
\* (with that rank's fraction, and more general ranks still do not replace it).
C1_MainTaxonOrEmptyName ==
  (Called /\ Len(RetainedHs) >= 2) =>
    IF Qualifying = {}
    THEN stats.MainTaxon = ZeroTaxon /\ stats.MainTaxonPercentage = ZeroPct
    ELSE /\ \/ stats.MainTaxon \in MaxSet(MostSpecific) /\ stats.MainTaxon.Name # ""
            \/ /\ stats.MainTaxon = ZeroTaxon
               /\ \E k \in MaxSet(MostSpecific) : k.Name = ""
         /\ stats.MainTaxonPercentage =
              Pct(MaxCount(MostSpecific), Len(RetainedHs))

\* C1 witness: a genus is the main taxon although the kingdom exceeds the threshold too
C1_Witness ==
  /\ Called
  /\ Len(RetainedHs) >= 2
  /\ {Genus, Kingdom} \subseteq Qualifying
  /\ stats.MainTaxon.Rank = Genus
  /\ stats.MainTaxon.Name # ""

\* C2 as claimed: MainTaxon is empty with percentage 0, or it has a name and
\* its percentage is strictly greater than 0.5 and than the threshold.
C2_MainTaxonIsMajority ==
  Called =>
    \/ stats.MainTaxon = ZeroTaxon /\ stats.MainTaxonPercentage = ZeroPct
    \/ /\ stats.MainTaxon.Name # ""
       /\ Greater(stats.MainTaxonPercentage, Half)
       /\ Greater(stats.MainTaxonPercentage, threshold)

\* C2 amended: MainTaxonPercentage is 0 with an empty MainTaxon, or it is
\* strictly greater than 0.5 and than the threshold; MainTaxon then has a name,
\* or is the empty Taxon standing for a taxon without a name that has this
\* fraction of the names.
C2_MainPercentageIsMajority ==
  Called =>
    \/ stats.MainTaxon = ZeroTaxon /\ stats.MainTaxonPercentage = ZeroPct
    \/ /\ Greater(stats.MainTaxonPercentage, Half)
       /\ Greater(stats.MainTaxonPercentage, threshold)
       /\ \/ stats.MainTaxon.Name # ""
          \/ /\ stats.MainTaxon = ZeroTaxon
             /\ \E r \in Comparable :
                  \E k \in DOMAIN DataOf(r) :
                    /\ k.Name = ""
                    /\ Pct(DataOf(r)[k], Len(RetainedHs)) = stats.MainTaxonPercentage

\* C2 witness: the caller asked for a threshold of 0 and a named taxon is the main taxon
C2_Witness ==
  /\ Called
  /\ threshold = ZeroPct
  /\ stats.MainTaxon.Name # ""
  /\ Greater(stats.MainTaxonPercentage, Half)

\* the Stats fields of a standard rank
FieldOf(r) ==
  CASE r = Kingdom -> <<stats.Kingdom, stats.KingdomPercentage>>
    [] r = Phylum -> <<stats.Phylum, stats.PhylumPercentage>>
    [] r = Class -> <<stats.Class, stats.ClassPercentage>>
    [] r = Order -> <<stats.Order, stats.OrderPercentage>>
    [] r = Family -> <<stats.Family, stats.FamilyPercentage>>
    [] r = Genus -> <<stats.Genus, stats.GenusPercentage>>

\* C3 as claimed: the field of a standard rank with a bucket is the taxon that
\* alone has the maximum count, with its fraction, and is empty with
\* percentage 0 when several taxa share the maximum.
C3_DominantTaxon ==
  Called =>
    \A r \in StandardRanks :
      BucketIdx(r) # {} =>
        IF Cardinality(MaxSet(r)) = 1
        THEN \E k \in MaxSet(r) :
               FieldOf(r) = <<k, Pct(MaxCount(r), Len(RetainedHs))>>
        ELSE FieldOf(r) = <<ZeroTaxon, ZeroPct>>

\* C3 amended: as claimed when the taxon that alone has the maximum count has
\* a name; when its name is empty the field is empty with percentage 0, as for
\* a shared maximum.
C3_DominantNamedTaxon ==
  Called =>
    \A r \in StandardRanks :
      BucketIdx(r) # {} =>
        IF Cardinality(MaxSet(r)) = 1 /\ \A k \in MaxSet(r) : k.Name # ""
        THEN \E k \in MaxSet(r) :
               FieldOf(r) = <<k, Pct(MaxCount(r), Len(RetainedHs))>>
        ELSE FieldOf(r) = <<ZeroTaxon, ZeroPct>>

\* C3 witness: one kingdom dominates while two genera share the maximum
C3_Witness ==
  /\ Called
  /\ Cardinality(MaxSet(Kingdom)) = 1
  /\ stats.Kingdom.Name # ""
  /\ Cardinality(MaxSet(Genus)) = 2
  /\ stats.Genus = ZeroTaxon

MainOf(st) == <<st.MainTaxon, st.MainTaxonPercentage>>

\* C6: a call with a threshold below 0.5 selects a main taxon and percentage
\* that a call with 0.5 on the same collection selects, and conversely; and
\* with a threshold of at most 0.5 a taxon covering exactly half of the names
\* is never selected.
C6_BelowHalfIsHalf ==
  Called =>
    /\ Greater(Half, threshold) =>
         \E its \in IterOrders(ranks, Len(ranks)) :
           MainOf(New(hs, Half, its)) = MainOf(stats)
    /\ threshold = Half =>
         \A t \in Thresholds :
           Greater(Half, t) =>
             \E its \in IterOrders(ranks, Len(ranks)) :
               MainOf(New(hs, t, its)) = MainOf(stats)
    /\ ~Greater(threshold, Half) => stats.MainTaxonPercentage # Half

\* C6 witness: called with threshold 0: each genus covers exactly half of the names and
\* the kingdom above them is selected
C6_Witness ==
  /\ Called
  /\ threshold = ZeroPct
  /\ Len(RetainedHs) = 2
  /\ MaxCount(Genus) = 1
  /\ stats.MainTaxon.Rank = Kingdom

\* every percentage of the Stats
Percentages ==
  { stats.KingdomPercentage, stats.PhylumPercentage, stats.ClassPercentage,
    stats.OrderPercentage, stats.FamilyPercentage, stats.GenusPercentage,
    stats.MainTaxonPercentage }
  \cup {stats.Kingdoms[i].Percentage : i \in 1..Len(stats.Kingdoms)}

\* C7: every percentage of the returned Stats lies in [0,1].
C7_PercentagesInUnitInterval ==
  Called => \A p \in Percentages : 0 <= p.num /\ p.num <= p.den

\* C8: with two or more retained hierarchies and a kingdom among their taxa,
\* Kingdoms has exactly one entry per kingdom taxon, with its count and its
\* fraction of the names, also when kingdoms tie; and it holds nothing else.
C8_KingdomsIsTheDistribution ==
  (Called /\ Len(RetainedHs) >= 2 /\ BucketIdx(Kingdom) # {}) =>
    /\ Len(stats.Kingdoms) = Cardinality(DOMAIN DataOf(Kingdom))
    /\ \A k \in DOMAIN DataOf(Kingdom) :
         \E i \in 1..Len(stats.Kingdoms) :
           stats.Kingdoms[i] =
             [ NamesNum |-> DataOf(Kingdom)[k], Name |-> k.Name,
               Percentage |-> Pct(DataOf(Kingdom)[k], Len(RetainedHs)) ]

\* C9: a second call on the same collection with the same threshold returns
\* the Stats the first call returned.
C9_Deterministic == Called => stats = first

====
